---- MODULE Spec2Model ----
(***************************************************************************)
(* A model of models/ijepa.py (class I_JEPA): the momentum schedule, the   *)
(* momentum (EMA) update of the target encoder in forward, the prototype   *)
(* evaluation fewshot_acc and the linear-probe evaluation ft_fewshot_acc.  *)
(*                                                                         *)
(* Numbers.  The momentum schedule is Python float arithmetic on values    *)
(* with a handful of decimal digits; it is modelled by exact rationals     *)
(* <<numerator, denominator>>.  Parameters are float tensors: a tensor     *)
(* element is a binary floating-point number <<mant, exp>> (value          *)
(* mant * 2^exp) with a MantBits-bit significand, and every tensor         *)
(* operation rounds its result to nearest, ties to even, as IEEE-754       *)
(* arithmetic does.  float32 has 24 significand bits; MantBits is smaller  *)
(* so that products fit the model checker's integers.  Exponent range is   *)
(* not bounded (no overflow or underflow for the values used).             *)
(*                                                                         *)
(* The networks themselves (vision transformer, predictor, classifier) are *)
(* uninterpreted: the result of applying a network is the record of the    *)
(* parameter values and inputs it was applied to.                          *)
(***************************************************************************)
EXTENDS Integers, Sequences, FiniteSets, TLC

(***************************************************************************)
(* Bounds of the model                                                     *)
(***************************************************************************)
MantBits == 9        \* significand bits of a tensor element
NumParams == 2       \* parameters of the encoder (and of its deep copy)
MaxHalfIters == 3    \* num_epochs ranges over k / (2*ipe), k = 1..MaxHalfIters
WholeEpochs == 1     \* in the schedule runs, num_epochs also ranges over 1..WholeEpochs
NumPredParams == 1   \* parameters of the predictor
MaxShots == 2        \* args.num_shots ranges over 1..MaxShots
QueryCounts == {1, 2} \* numbers of query samples of a task
MaxDeviations == 1   \* support embeddings that differ from the common one
MaxWays == 4         \* args.train_num_ways ranges over 1..MaxWays
MaxBatches == 2      \* len(loader) ranges over 1..MaxBatches
MaxFtQueries == 1    \* query samples of a task of the linear probe
MaxFullPerm == 3     \* up to this size, rand_id ranges over all permutations

(***************************************************************************)
(* Program constants                                                       *)
(***************************************************************************)
ipe == 9600

fewshot_ways == 5     \* x_support.view(5, args.num_shots, -1)

ft_epochs == 100      \* for _ in range(100)

ft_batch == 4         \* rand_id[i*4:(i+1)*4]

(***************************************************************************)
(* Exact rationals <<n, d>>, d > 0, in lowest terms                        *)
(***************************************************************************)
Abs(x) == IF x < 0 THEN -x ELSE x

Min(a, b) == IF a <= b THEN a ELSE b

Max(a, b) == IF a >= b THEN a ELSE b

RECURSIVE GCD(_, _)
GCD(a, b) == IF b = 0 THEN a ELSE GCD(b, a % b)

Rat(n, d) ==
    LET g == GCD(Abs(n), Abs(d))
        s == IF d < 0 THEN -1 ELSE 1
    IN  <<(s * n) \div g, (s * d) \div g>>

RAdd(a, b) ==
    LET g == GCD(a[2], b[2])
    IN  Rat(a[1] * (b[2] \div g) + b[1] * (a[2] \div g), (a[2] \div g) * b[2])

RNeg(a) == <<-a[1], a[2]>>

RSub(a, b) == RAdd(a, RNeg(b))

RMul(a, b) ==
    LET g1 == GCD(Abs(a[1]), b[2])
        g2 == GCD(Abs(b[1]), a[2])
    IN  Rat((a[1] \div g1) * (b[1] \div g2), (a[2] \div g2) * (b[2] \div g1))

RDiv(a, b) == RMul(a, IF b[1] < 0 THEN <<-b[2], -b[1]>> ELSE <<b[2], b[1]>>)

RLe(a, b) == RSub(b, a)[1] >= 0

RInt(i) == <<i, 1>>

\* Python's int(x): truncation toward zero
Trunc(a) == IF a[1] >= 0 THEN a[1] \div a[2] ELSE -((-a[1]) \div a[2])

(***************************************************************************)
(* Floating-point tensor elements <<mant, exp>>: zero is <<0, 0>>,         *)
(* otherwise 2^(MantBits-1) <= |mant| < 2^MantBits.                        *)
(***************************************************************************)
FZero == <<0, 0>>

HalfRange == 2 ^ (MantBits - 1)

FullRange == 2 ^ MantBits

RECURSIVE DropBits(_)
DropBits(a) == IF a < FullRange THEN 0 ELSE 1 + DropBits(a \div 2)

RECURSIVE ScaleUp(_, _)
ScaleUp(a, e) == IF a >= HalfRange THEN <<a, e>> ELSE ScaleUp(2 * a, e - 1)

\* a > 0, value a * 2^e, rounded to nearest, ties to even
RoundNat(a, e) ==
    IF a < FullRange THEN ScaleUp(a, e)
    ELSE LET s == DropBits(a)
             q == a \div (2 ^ s)
             r == a % (2 ^ s)
             half == 2 ^ (s - 1)
             q1 == IF r > half \/ (r = half /\ q % 2 = 1) THEN q + 1 ELSE q
         IN  IF q1 = FullRange THEN <<HalfRange, e + s + 1>> ELSE <<q1, e + s>>

RoundInt(a, e) ==
    IF a = 0 THEN FZero
    ELSE IF a > 0 THEN RoundNat(a, e)
    ELSE LET p == RoundNat(-a, e) IN <<-p[1], p[2]>>

\* the leading MantBits bits of n/d > 0 by long division: <<q, r, d, e>> with
\* n/d = (q + r/d) * 2^e and 2^(MantBits-1) <= q < 2^MantBits
RECURSIVE LongDiv(_, _, _, _)
LongDiv(q, r, d, e) ==
    IF q >= FullRange THEN LongDiv(q \div 2, (q % 2) * d + r, 2 * d, e + 1)
    ELSE IF q < HalfRange
    THEN LongDiv(2 * q + (IF 2 * r >= d THEN 1 ELSE 0),
                 IF 2 * r >= d THEN 2 * r - d ELSE 2 * r, d, e - 1)
    ELSE <<q, r, d, e>>

RoundPosRat(n, d) ==
    LET t == LongDiv(n \div d, n % d, d, 0)
        q == t[1]
        q1 == IF 2 * t[2] > t[3] \/ (2 * t[2] = t[3] /\ q % 2 = 1) THEN q + 1 ELSE q
    IN  IF q1 = FullRange THEN <<HalfRange, t[4] + 1>> ELSE <<q1, t[4]>>

\* a Python float handed to a tensor operation is cast to the tensor's dtype
ToFloat(a) ==
    IF a[1] = 0 THEN FZero
    ELSE IF a[1] > 0 THEN RoundPosRat(a[1], a[2])
    ELSE LET p == RoundPosRat(-a[1], a[2]) IN <<-p[1], p[2]>>

FMul(x, y) == RoundInt(x[1] * y[1], x[2] + y[2])

FAdd(x, y) ==
    IF x[1] = 0 THEN y
    ELSE IF y[1] = 0 THEN x
    ELSE IF x[2] - y[2] > MantBits + 2 THEN x
    ELSE IF y[2] - x[2] > MantBits + 2 THEN y
    ELSE LET e == Min(x[2], y[2])
         IN  RoundInt(x[1] * 2 ^ (x[2] - e) + y[1] * 2 ^ (y[2] - e), e)

\* the integer v with x = v * 2^e, for e <= the exponent of x
Aligned(x, e) == x[1] * 2 ^ (x[2] - e)

MinExp(x, y) == IF x[1] = 0 THEN y[2] ELSE IF y[1] = 0 THEN x[2] ELSE Min(x[2], y[2])

FLe(x, y) == LET e == MinExp(x, y) IN Aligned(x, e) <= Aligned(y, e)

(***************************************************************************)
(* State                                                                   *)
(***************************************************************************)
VARIABLES
    num_epochs,      \* the constructor's argument, a rational
    sched_pos,       \* values drawn so far from self.momentum_scheduler
    encoder,         \* self.encoder.parameters(), in parameter order
    predictor,       \* self.predictor.parameters()
    target_encoder,  \* self.target_encoder.parameters()
    requires_grad,   \* per module, the requires_grad flag of its parameters
    outcome,         \* how the most recent call ended
    momentum,        \* the m drawn by the most recent forward call, if any
    pre,             \* the model when the most recent forward call began (as it
                     \* stands, when the most recent step was not a forward call)
    loss,            \* the value the most recent forward call returned, if any
    order,           \* the steps the most recent forward call ran, in order
    pc,              \* where control is: "idle", or a position in ft_fewshot_acc
    call,            \* the arguments of the evaluation call yet to run, if any
    ret,             \* the value the most recent evaluation call returned, if any
    fs,              \* the locals of the most recent fewshot_acc call
    ft               \* the locals of the most recent ft_fewshot_acc call

vars == <<num_epochs, sched_pos, encoder, predictor, target_encoder,
          requires_grad, outcome, momentum, pre, loss, order, pc, call, ret, fs, ft>>

None == <<>>

Some(x) == <<x>>

evalvars == <<pc, call, ret, fs, ft>>

modelvars == <<num_epochs, sched_pos, encoder, predictor, target_encoder, requires_grad>>

\* the parameters and the schedule position on entry to a call
Snapshot ==
    [encoder |-> encoder, predictor |-> predictor,
     target_encoder |-> target_encoder, sched_pos |-> sched_pos]

(***************************************************************************)
(* __init__: the momentum schedule                                         *)
(***************************************************************************)
MomentumStart == <<249, 250>>     \* 0.996

MomentumEnd == <<1, 1>>           \* 1.0

\* range(int(self.ipe * num_epochs)): the schedule one value short
SchedLenShort(E) == Max(0, Trunc(RMul(RInt(ipe), E)))

\* range(int(self.ipe * num_epochs) + 1)
SchedLen(E) == Max(0, Trunc(RMul(RInt(ipe), E)) + 1)

\* the schedule shifted by one position
MomentumOffByOne(i, E) ==
    RAdd(MomentumStart,
         RDiv(RMul(RInt(i + 1), RSub(MomentumEnd, MomentumStart)),
              RMul(RInt(ipe), E)))

\* 0.996 + i * (1.0 - 0.996) / (self.ipe * num_epochs)
Momentum(i, E) ==
    RAdd(MomentumStart,
         RDiv(RMul(RInt(i), RSub(MomentumEnd, MomentumStart)),
              RMul(RInt(ipe), E)))

\* next(self.momentum_scheduler) yields a value
SchedulerHasNext(pos, E) == pos < SchedLen(E)

(***************************************************************************)
(* forward                                                                 *)
(***************************************************************************)
\* param_k.data.mul_(m).add_(param_q.detach().data): the weight (1.-m) forgotten
EmaParamUnweighted(k, q, m) == FAdd(FMul(k, ToFloat(m)), q)

\* param_k.data.mul_(m).add_((1.-m) * param_q.detach().data)
EmaParam(k, q, m) ==
    FAdd(FMul(k, ToFloat(m)), FMul(ToFloat(RSub(RInt(1), m)), q))

RECURSIVE ZipUpdate(_, _, _, _)
ZipUpdate(enc, tgt, m, j) ==
    IF j > Min(Len(enc), Len(tgt)) THEN tgt
    ELSE ZipUpdate(enc, [tgt EXCEPT ![j] = EmaParam(tgt[j], enc[j], m)], m, j + 1)

\* the loop starting at the second parameter
MomentumUpdateSkipFirst(enc, tgt, m) ==
    [encoder |-> enc, target_encoder |-> ZipUpdate(enc, tgt, m, 2)]

\* for param_k, param_q in zip(...): the roles of the two modules exchanged
MomentumUpdateSwapped(enc, tgt, m) ==
    [encoder |-> ZipUpdate(tgt, enc, m, 1), target_encoder |-> tgt]

\* for param_q, param_k in zip(encoder.parameters(), target_encoder.parameters())
MomentumUpdate(enc, tgt, m) ==
    [encoder |-> enc, target_encoder |-> ZipUpdate(enc, tgt, m, 1)]

\* h = repeat_interleave_batch(apply_masks(layer_norm(target_encoder(imgs)), masks_pred), ...)
ForwardTarget(tgt) ==
    [net |-> tgt, imgs |-> "udata[0]", masks |-> "masks_pred", repeat |-> "len(masks_enc)"]

\* z = predictor(encoder(imgs, masks_enc), masks_enc, masks_pred)
ForwardContext(enc, pred) ==
    [encoder |-> enc, predictor |-> pred, imgs |-> "udata[0]",
     masks |-> <<"masks_enc", "masks_pred">>]

\* F.smooth_l1_loss(z, h)
SmoothL1(z, h) == [z |-> z, h |-> h]

\* the targets computed before the momentum update
ForwardStepsStale(enc, pred, tgt, m) ==
    LET h == ForwardTarget(tgt)
        upd == MomentumUpdate(enc, tgt, m)
        z == ForwardContext(upd.encoder, pred)
    IN  [encoder |-> upd.encoder,
         target_encoder |-> upd.target_encoder,
         loss |-> SmoothL1(z, h),
         order |-> <<"forward_target", "momentum_update", "forward_context", "loss">>]

\* the body of forward once m is drawn
ForwardSteps(enc, pred, tgt, m) ==
    LET upd == MomentumUpdate(enc, tgt, m)
        h == ForwardTarget(upd.target_encoder)
        z == ForwardContext(upd.encoder, pred)
    IN  [encoder |-> upd.encoder,
         target_encoder |-> upd.target_encoder,
         loss |-> SmoothL1(z, h),
         order |-> <<"momentum_update", "forward_target", "forward_context", "loss">>]

Forward ==
    /\ pc = "idle"
    /\ SchedulerHasNext(sched_pos, num_epochs)
    /\ LET m == Momentum(sched_pos, num_epochs)
           r == ForwardSteps(encoder, predictor, target_encoder, m)
       IN  /\ momentum' = Some(m)
           /\ encoder' = r.encoder
           /\ target_encoder' = r.target_encoder
           /\ loss' = Some(r.loss)
           /\ order' = r.order
    /\ sched_pos' = sched_pos + 1
    /\ pre' = Snapshot
    /\ outcome' = "loss"
    /\ UNCHANGED <<num_epochs, predictor, requires_grad, evalvars>>

\* next() raises StopIteration: nothing after line 49 runs
ForwardExhausted ==
    /\ pc = "idle"
    /\ ~SchedulerHasNext(sched_pos, num_epochs)
    /\ outcome' = "StopIteration"
    /\ momentum' = None
    /\ loss' = None
    /\ order' = <<>>
    /\ pre' = Snapshot
    /\ UNCHANGED <<modelvars, evalvars>>

(***************************************************************************)
(* The training loop's optimizer step (the caller of forward): it assigns  *)
(* new values to the parameters that require gradients.                    *)
(***************************************************************************)
ParamVals == {ToFloat(<<375, 256>>), ToFloat(<<-3, 4>>)}

ParamVecs(n) == [1..n -> ParamVals]

OptimizerStep ==
    /\ pc = "idle"
    /\ \E enc \in ParamVecs(NumParams), pred \in ParamVecs(NumPredParams) :
        /\ encoder' = IF requires_grad.encoder THEN enc ELSE encoder
        /\ predictor' = IF requires_grad.predictor THEN pred ELSE predictor
        /\ target_encoder' = IF requires_grad.target_encoder THEN enc ELSE target_encoder
    /\ outcome' = "step"
    /\ momentum' = None
    /\ loss' = None
    /\ order' = <<>>
    /\ pre' = [encoder |-> encoder', predictor |-> predictor',
               target_encoder |-> target_encoder', sched_pos |-> sched_pos]
    /\ UNCHANGED <<num_epochs, sched_pos, requires_grad, evalvars>>

(***************************************************************************)
(* Training: construction, then forward calls and optimizer steps          *)
(***************************************************************************)
EpochSet == {Rat(k, 2 * ipe) : k \in 1..MaxHalfIters}

\* __init__: target_encoder = copy.deepcopy(encoder), requires_grad = False
Constructed(E) ==
    /\ num_epochs = E
    /\ sched_pos = 0
    /\ encoder \in ParamVecs(NumParams)
    /\ predictor \in ParamVecs(NumPredParams)
    /\ target_encoder = encoder
    /\ requires_grad = [encoder |-> TRUE, predictor |-> TRUE, target_encoder |-> FALSE]
    /\ outcome = "constructed"
    /\ momentum = None
    /\ pre = Snapshot
    /\ loss = None
    /\ order = <<>>
    /\ pc = "idle"
    /\ ret = None
    /\ fs = None
    /\ ft = None

Init == \E E \in EpochSet : Constructed(E) /\ call = None


Next ==
    \/ Forward
    \/ ForwardExhausted
    \/ OptimizerStep

Spec == Init /\ [][Next]_vars

(***************************************************************************)
(* The schedule alone: construction with short and with whole-epoch        *)
(* schedules, then forward calls until the schedule is exhausted.          *)
(***************************************************************************)
ScheduleEpochSet == EpochSet \cup {RInt(E) : E \in 1..WholeEpochs}

ScheduleInit ==
    /\ \E E \in ScheduleEpochSet : Constructed(E)
    /\ call = None
    /\ \A j \in 1..NumParams : encoder[j] = ToFloat(<<375, 256>>)
    /\ \A j \in 1..NumPredParams : predictor[j] = ToFloat(<<375, 256>>)

ScheduleNext ==
    \/ Forward
    \/ ForwardExhausted

SpecSchedule == ScheduleInit /\ [][ScheduleNext]_vars

(***************************************************************************)
(* fewshot_acc.  Embeddings are integer vectors; a normalised row is the   *)
(* vector num divided by the integer den; a prototype is the integer       *)
(* vector vec divided by the square root of normsq.  The embeddings of the *)
(* support and query samples (the batch-normalised encoder outputs, split  *)
(* by split_support_query_set) are the call's inputs.                      *)
(***************************************************************************)
Dot(u, v) == u[1] * v[1] + u[2] * v[2]

NormSq(v) == Dot(v, v)

RECURSIVE SqrtFrom(_, _)
SqrtFrom(n, r) == IF (r + 1) * (r + 1) > n THEN r ELSE SqrtFrom(n, r + 1)

\* the L2 norm of an embedding (the embeddings used have integer norms)
Norm(v) == SqrtFrom(NormSq(v), 0)

\* F.normalize: v / max(||v||, eps)
Normalize(v) ==
    LET n == Norm(v)
    IN  [num |-> v, den |-> IF n = 0 THEN 1 ELSE n]

LCM(a, b) == (a \div GCD(a, b)) * b

\* x.view(ways, shots, -1) with the groups taken at stride `ways`
ViewStrided(x, ways, shots) ==
    [w \in 1..ways |-> [k \in 1..shots |-> x[(k - 1) * ways + w]]]

\* x.view(ways, shots, -1): row (w, k) is row w*shots + k of x
View(x, ways, shots) ==
    [w \in 1..ways |-> [k \in 1..shots |-> x[(w - 1) * shots + k]]]

RECURSIVE GroupDen(_, _)
GroupDen(g, k) == IF k = 0 THEN 1 ELSE LCM(GroupDen(g, k - 1), g[k].den)

RECURSIVE GroupNum(_, _, _)
GroupNum(g, k, L) ==
    IF k = 0 THEN <<0, 0>>
    ELSE LET r == GroupNum(g, k - 1, L)
             c == L \div g[k].den
         IN  <<r[1] + c * g[k].num[1], r[2] + c * g[k].num[2]>>

\* torch.sum(group, dim=1), then F.normalize(., dim=1)
Prototype(g) ==
    LET S == GroupNum(g, Len(g), GroupDen(g, Len(g)))
    IN  [vec |-> S, normsq |-> NormSq(S)]

\* F.normalize(torch.sum(x_support.view(5, num_shots, -1), dim=1), dim=1)
Prototypes(x_support, shots) ==
    LET groups == View([i \in 1..Len(x_support) |-> Normalize(x_support[i])],
                       fewshot_ways, shots)
    IN  [w \in 1..fewshot_ways |-> Prototype(groups[w])]

\* einsum('qd, wd -> qw'): the logit of query q and prototype p is
\* a / (q.den * sqrt(normsq)); q.den is the same along a row of logits
Logit(q, p) ==
    IF p.normsq = 0 THEN [a |-> 0, normsq |-> 1]
    ELSE [a |-> Dot(q.num, p.vec), normsq |-> p.normsq]

\* l1 < l2 for two logits of one row
LogitLess(l1, l2) ==
    IF l1.a < 0 /\ l2.a >= 0 THEN TRUE
    ELSE IF l1.a >= 0 /\ l2.a < 0 THEN FALSE
    ELSE IF l1.a >= 0 THEN l1.a * l1.a * l2.normsq < l2.a * l2.a * l1.normsq
    ELSE l1.a * l1.a * l2.normsq > l2.a * l2.a * l1.normsq

\* torch.max(row): the index (from 0) of the first maximal entry
RECURSIVE MaxScan(_, _, _)
MaxScan(row, best, w) ==
    IF w > Len(row) THEN best - 1
    ELSE MaxScan(row, IF LogitLess(row[best], row[w]) THEN w ELSE best, w + 1)

ArgMax(row) == MaxScan(row, 1, 2)

\* (predicted == y).sum().item()
CountEqual(predicted, y) == Cardinality({i \in 1..Len(y) : predicted[i] = y[i]})

\* the body of fewshot_acc for the one task split_support_query_set returns
FewshotSteps(shots, x_support, x_query, y_query) ==
    LET prototypes == Prototypes(x_support, shots)
        logits == [i \in 1..Len(x_query) |->
                      [w \in 1..fewshot_ways |->
                          Logit(Normalize(x_query[i]), prototypes[w])]]
        predicted == [i \in 1..Len(x_query) |-> ArgMax(logits[i])]
        correct == 0 + CountEqual(predicted, y_query)
        total == 0 + Len(y_query)
    IN  [prototypes |-> prototypes, logits |-> logits, predicted |-> predicted,
         correct |-> correct, total |-> total,
         acc |-> Rat(100 * correct, total)]

FewshotAcc ==
    /\ pc = "idle"
    /\ call # None
    /\ call[1].fn = "fewshot_acc"
    /\ Len(call[1].x_support) = fewshot_ways * call[1].num_shots
    /\ Len(call[1].y_query) > 0
    /\ LET r == FewshotSteps(call[1].num_shots, call[1].x_support,
                             call[1].x_query, call[1].y_query)
       IN  /\ fs' = Some([num_shots |-> call[1].num_shots,
                          x_support |-> call[1].x_support,
                          x_query |-> call[1].x_query,
                          y_query |-> call[1].y_query,
                          prototypes |-> r.prototypes, logits |-> r.logits,
                          predicted |-> r.predicted,
                          correct |-> r.correct, total |-> r.total])
           /\ ret' = Some(r.acc)
    /\ call' = None
    /\ outcome' = "acc"
    /\ momentum' = None
    /\ loss' = None
    /\ order' = <<>>
    /\ pre' = Snapshot
    /\ UNCHANGED <<modelvars, pc, ft>>

(***************************************************************************)
(* Prototype evaluation: a constructed model and one fewshot_acc call on   *)
(* embeddings drawn from a bounded set.                                    *)
(***************************************************************************)
EmbA == <<3, 4>>

EmbB == <<10, 0>>

Embeddings == {EmbA, EmbB}

\* the support sets of n rows in which at most d rows differ from EmbA
RECURSIVE Deviating(_, _)
Deviating(n, d) ==
    IF d = 0 THEN {[i \in 1..n |-> EmbA]}
    ELSE Deviating(n, d - 1)
           \cup {[x EXCEPT ![i] = EmbB] : x \in Deviating(n, d - 1), i \in 1..n}

SupportSets(shots) == Deviating(fewshot_ways * shots, MaxDeviations)

EvalModel ==
    /\ Constructed(Rat(1, 2 * ipe))
    /\ \A j \in 1..NumParams : encoder[j] = ToFloat(<<375, 256>>)
    /\ \A j \in 1..NumPredParams : predictor[j] = ToFloat(<<375, 256>>)

FewshotInit ==
    /\ EvalModel
    /\ \E shots \in 1..MaxShots, n \in QueryCounts :
         \E xs \in SupportSets(shots), xq \in [1..n -> Embeddings],
            yq \in [1..n -> 0..(fewshot_ways - 1)] :
            call = Some([fn |-> "fewshot_acc", num_shots |-> shots,
                         x_support |-> xs, x_query |-> xq, y_query |-> yq])

FewshotNext == FewshotAcc

SpecFewshot == FewshotInit /\ [][FewshotNext]_vars

(***************************************************************************)
(* ft_fewshot_acc (linear probing).  A module is the record of the         *)
(* parameter values it was created with and the number of optimizer steps  *)
(* applied to it since; the features a network computes are the record of  *)
(* that module and its input.  The outcome of comparing the classifier's   *)
(* predictions with the labels is an input.                                *)
(***************************************************************************)
Module(params) == [params |-> params, steps |-> 0]

\* torch.mean(net(x), dim=1)
Features(net, x) == [net |-> net, x |-> x]

\* optim.SGD(classifier.parameters(), ...) with the copied network added
OptimizerParamsWithNet == {"classifier", "net"}

\* optim.SGD(classifier.parameters(), ...): the modules the optimizer updates
OptimizerParams == {"classifier"}

\* zero_grad(), backward(), optimizer.step() on one batch
TrainStep(mods, batch) ==
    [name \in DOMAIN mods |->
        IF name \in OptimizerParams
        THEN [mods[name] EXCEPT !.steps = @ + 1]
        ELSE mods[name]]

\* for id in batch_indices: ...
RECURSIVE RunBatches(_, _, _)
RunBatches(mods, batch_indices, i) ==
    IF i > Len(batch_indices) THEN mods
    ELSE RunBatches(TrainStep(mods, batch_indices[i]), batch_indices, i + 1)

\* batches that overlap: rand_id[i*2:i*2+4]
BatchIndicesOverlapping(rand_id) ==
    [i \in 1..(Len(rand_id) \div ft_batch) |->
        SubSeq(rand_id, (i - 1) * 2 + 1, (i - 1) * 2 + ft_batch)]

\* [rand_id[i*4:(i+1)*4] for i in range(rand_id.size//4)]
BatchIndices(rand_id) ==
    [i \in 1..(Len(rand_id) \div ft_batch) |->
        SubSeq(rand_id, (i - 1) * ft_batch + 1, i * ft_batch)]

RECURSIVE AllPerms(_)
AllPerms(S) ==
    IF S = {} THEN {<<>>}
    ELSE UNION {{<<x>> \o q : q \in AllPerms(S \ {x})} : x \in S}

\* the outcomes of np.random.permutation(n) considered: every permutation of
\* 0..n-1 for small n, the rotations of 0..n-1 and of its reversal otherwise
RandPermutations(n) ==
    IF n <= MaxFullPerm THEN AllPerms(0..(n - 1))
    ELSE {[i \in 1..n |-> (i - 1 + r) % n] : r \in 0..(n - 1)}
         \cup {[i \in 1..n |-> (n - i + r) % n] : r \in 0..(n - 1)}

\* the counters kept from the batch before
BatchCountersKept(correct, total) == [correct |-> correct, total |-> total]

\* correct, total = 0, 0
BatchCounters(correct, total) == [correct |-> 0, total |-> 0]

\* total_acc = 0, and the loop over the loader begins
FtBegin ==
    /\ pc = "idle"
    /\ call # None
    /\ call[1].fn = "ft_fewshot_acc"
    /\ ft' = Some([args |-> call[1].args, len_loader |-> call[1].len_loader,
                   batch_idx |-> 0, total_acc |-> RInt(0),
                   correct |-> 0, total |-> 0, acc |-> None,
                   mods |-> None, shots |-> None, queries |-> None,
                   epoch |-> 0, rand_id |-> <<>>, batch_indices |-> <<>>,
                   expected_sum |-> RInt(0)])
    /\ call' = None
    /\ pc' = "loader"
    /\ pre' = Snapshot
    /\ outcome' = "running"
    /\ ret' = None
    /\ momentum' = None
    /\ loss' = None
    /\ order' = <<>>
    /\ UNCHANGED <<modelvars, fs>>

\* the loader yields a batch; its one task is set up: lines 114-132
FtBatchStart ==
    /\ pc = "loader"
    /\ ft[1].batch_idx < ft[1].len_loader
    /\ LET c == BatchCounters(ft[1].correct, ft[1].total)
           net == Module(target_encoder)
           classifier == Module("BatchNorm1d, Linear")
       IN  ft' = Some([ft[1] EXCEPT
                   !.correct = c.correct,
                   !.total = c.total,
                   !.mods = [net |-> net, classifier |-> classifier],
                   !.shots = Features(net, "x_support"),
                   !.queries = Features(net, "x_query"),
                   !.epoch = 0,
                   !.rand_id = <<>>,
                   !.batch_indices = <<>>])
    /\ pc' = "train"
    /\ UNCHANGED <<modelvars, outcome, momentum, pre, loss, order, call, ret, fs>>

\* one pass of the loop `for _ in range(100)`: lines 134-148
FtEpoch ==
    /\ pc = "train"
    /\ ft[1].epoch < ft_epochs
    /\ \E rand_id \in RandPermutations(ft[1].args.train_num_ways * ft[1].args.num_shots) :
          LET batch_indices == BatchIndices(rand_id)
          IN  ft' = Some([ft[1] EXCEPT
                      !.shots = ft[1].shots,
                      !.queries = ft[1].queries,
                      !.rand_id = rand_id,
                      !.batch_indices = batch_indices,
                      !.mods = RunBatches(ft[1].mods, batch_indices, 1),
                      !.epoch = @ + 1])
    /\ UNCHANGED <<modelvars, outcome, momentum, pre, loss, order, pc, call, ret, fs>>

\* the queries are classified and the batch's accuracy is added: lines 150-160
FtClassify ==
    /\ pc = "train"
    /\ ft[1].epoch = ft_epochs
    /\ \E n \in 1..MaxFtQueries :
       \E matches \in [1..n -> BOOLEAN] :
          LET hits == Cardinality({i \in 1..n : matches[i]})
              correct == ft[1].correct + hits
              total == ft[1].total + n
              acc == Rat(100 * correct, total)
          IN  ft' = Some([ft[1] EXCEPT
                      !.correct = correct,
                      !.total = total,
                      !.acc = Some(acc),
                      !.total_acc = RAdd(@, acc),
                      !.batch_idx = @ + 1,
                      !.expected_sum = RAdd(@, Rat(100 * hits, n))])
    /\ pc' = "loader"
    /\ UNCHANGED <<modelvars, outcome, momentum, pre, loss, order, call, ret, fs>>

\* accuracy = total_acc / len(loader); return accuracy
FtReturn ==
    /\ pc = "loader"
    /\ ft[1].batch_idx = ft[1].len_loader
    /\ ret' = Some(RDiv(ft[1].total_acc, RInt(ft[1].len_loader)))
    /\ outcome' = "accuracy"
    /\ pc' = "idle"
    /\ UNCHANGED <<modelvars, momentum, pre, loss, order, call, fs, ft>>

(***************************************************************************)
(* Linear-probe evaluation: a constructed model and one ft_fewshot_acc     *)
(* call on a non-empty loader.                                             *)
(***************************************************************************)
FtInit ==
    /\ EvalModel
    /\ \E ways \in 1..MaxWays, shots \in 1..MaxShots, n \in 1..MaxBatches :
          call = Some([fn |-> "ft_fewshot_acc", len_loader |-> n,
                       args |-> [train_num_ways |-> ways, num_shots |-> shots]])

FtNext ==
    \/ FtBegin
    \/ FtBatchStart
    \/ FtEpoch
    \/ FtClassify
    \/ FtReturn

SpecFt == FtInit /\ [][FtNext]_vars

(***************************************************************************)
(* Claims about forward                                                    *)
(***************************************************************************)
\* C1: every successful forward call replaces each target-encoder parameter k
\* by m*k + (1-m)*q (in tensor arithmetic), k its value before the call, q the
\* encoder parameter at the same position, m the value drawn from the
\* schedule by this call; every position is updated exactly once.
C1_MomentumUpdateFormula ==
    outcome = "loss" =>
        /\ momentum = Some(Momentum(sched_pos - 1, num_epochs))
        /\ Len(target_encoder) = Len(pre.target_encoder)
        /\ Len(target_encoder) = Len(encoder)
        /\ \A j \in 1..Len(target_encoder) :
              target_encoder[j] =
                  FAdd(FMul(pre.target_encoder[j], ToFloat(momentum[1])),
                       FMul(ToFloat(RSub(RInt(1), momentum[1])), encoder[j]))

C1_Witness ==
    /\ outcome = "loss"
    /\ momentum # Some(MomentumEnd)
    /\ \A j \in 1..NumParams :
          /\ pre.target_encoder[j] # encoder[j]
          /\ target_encoder[j] # pre.target_encoder[j]

\* C2: the i-th forward call (i = 0, 1, ...) of a model built with
\* num_epochs = E draws 0.996 + i*(1.0 - 0.996)/(9600*E): 0.996 first, never
\* decreasing, within [0.996, 1.0], and 1.0 at i = 9600*E.
C2_ClosedForm(i, E) == Rat(249 * ipe * E[1] + i * E[2], 250 * ipe * E[1])

C2_MomentumSchedule ==
    outcome = "loss" =>
        /\ momentum = Some(C2_ClosedForm(sched_pos - 1, num_epochs))
        /\ (sched_pos = 1 => momentum = Some(<<249, 250>>))
        /\ RLe(<<249, 250>>, momentum[1])
        /\ RLe(momentum[1], <<1, 1>>)
        /\ (sched_pos >= 2 =>
               RLe(C2_ClosedForm(sched_pos - 2, num_epochs), momentum[1]))
        /\ ((sched_pos - 1) * num_epochs[2] = ipe * num_epochs[1]
               => momentum = Some(<<1, 1>>))

C2_Witness ==
    /\ outcome = "loss"
    /\ num_epochs = <<1, 1>>
    /\ sched_pos = ipe + 1
    /\ momentum = Some(<<1, 1>>)

\* C3: a forward call changes only the target-encoder parameters and the
\* position of the schedule; encoder and predictor parameters keep their
\* values; the target-encoder parameters (requires_grad False since
\* construction) change in no step other than the momentum update.
C3_ForwardFrame ==
    [][/\ outcome' = "loss" =>
              /\ encoder' = encoder
              /\ predictor' = predictor
              /\ num_epochs' = num_epochs
              /\ requires_grad' = requires_grad
              /\ sched_pos' = sched_pos + 1
       /\ ~requires_grad.target_encoder
       /\ target_encoder' # target_encoder =>
              /\ outcome' = "loss"
              /\ target_encoder' =
                     MomentumUpdate(encoder, target_encoder, momentum'[1]).target_encoder
      ]_vars

C3_Witness ==
    /\ outcome = "loss"
    /\ sched_pos >= 2
    /\ target_encoder # pre.target_encoder
    /\ encoder # target_encoder
    /\ encoder # pre.target_encoder

\* C6: a model built with num_epochs = E supports exactly int(9600*E) + 1
\* successful forward calls; the next call raises while drawing the momentum,
\* before any parameter is modified and without returning a loss.
C6_Calls(E) == (ipe * E[1]) \div E[2] + 1

C6_ScheduleExhaustion ==
    /\ sched_pos <= C6_Calls(num_epochs)
    /\ outcome = "loss" => pre.sched_pos < C6_Calls(num_epochs)
    /\ outcome = "StopIteration" =>
          /\ pre.sched_pos = C6_Calls(num_epochs)
          /\ loss = None
          /\ encoder = pre.encoder
          /\ predictor = pre.predictor
          /\ target_encoder = pre.target_encoder
          /\ sched_pos = pre.sched_pos

C6_Witness ==
    /\ outcome = "StopIteration"
    /\ num_epochs = <<1, 1>>
    /\ sched_pos = ipe + 1

\* C7: within a forward call the momentum update comes first, then the
\* targets, then the context predictions, then the loss: the targets are
\* computed by the target encoder as updated in this call from the encoder
\* parameters as they stand when the call begins.
C7_ForwardOrder ==
    outcome = "loss" =>
        /\ order = <<"momentum_update", "forward_target", "forward_context", "loss">>
        /\ loss[1].h.net = target_encoder
        /\ loss[1].h.net =
               MomentumUpdate(encoder, pre.target_encoder, momentum[1]).target_encoder
        /\ loss[1].z.encoder = encoder
        /\ loss[1].z.predictor = predictor

C7_Witness ==
    /\ outcome = "loss"
    /\ sched_pos >= 2
    /\ loss[1].h.net # pre.target_encoder
    /\ loss[1].z.encoder # pre.target_encoder

\* C8 as stated: after the momentum update each target-encoder parameter lies
\* in the closed interval between its old value and the encoder parameter; a
\* target equal to the encoder stays equal; momentum 1.0 changes nothing.
C8_Between(r, k, q) == (FLe(k, r) /\ FLe(r, q)) \/ (FLe(q, r) /\ FLe(r, k))

C8_ExactInterval ==
    outcome = "loss" =>
        /\ \A j \in 1..Len(target_encoder) :
              C8_Between(target_encoder[j], pre.target_encoder[j], encoder[j])
        /\ (pre.target_encoder = encoder => target_encoder = encoder)
        /\ (momentum = Some(MomentumEnd) => target_encoder = pre.target_encoder)

\* how far r lies outside the interval between k and q, and the larger
\* magnitude of k and q, both in units of 2^e
C8_Outside(r, k, q, e) ==
    LET R == Aligned(r, e)
        K == Aligned(k, e)
        Q == Aligned(q, e)
    IN  Max(0, Max(Min(K, Q) - R, R - Max(K, Q)))

C8_Magnitude(k, q, e) == Max(Abs(Aligned(k, e)), Abs(Aligned(q, e)))

C8_Exp(r, k, q) == MinExp(r, IF k[1] = 0 THEN q ELSE IF q[1] = 0 THEN k
                              ELSE IF k[2] <= q[2] THEN k ELSE q)

\* C8 (amended): after the momentum update each target-encoder parameter lies
\* in the interval between its old value k and the encoder parameter q up to
\* rounding: outside it by at most 4 * 2^-p * max(|k|, |q|), p the significand
\* precision; momentum 1.0 changes nothing.
C8_IntervalUpToRounding ==
    outcome = "loss" =>
        /\ \A j \in 1..Len(target_encoder) :
              LET e == C8_Exp(target_encoder[j], pre.target_encoder[j], encoder[j])
              IN  C8_Outside(target_encoder[j], pre.target_encoder[j], encoder[j], e) * FullRange
                     <= 4 * C8_Magnitude(pre.target_encoder[j], encoder[j], e)
        /\ (momentum = Some(MomentumEnd) => target_encoder = pre.target_encoder)

C8_Witness ==
    /\ outcome = "loss"
    /\ pre.target_encoder = encoder
    /\ target_encoder # encoder
    /\ sched_pos = 1

(***************************************************************************)
(* Claims about fewshot_acc                                                *)
(***************************************************************************)
\* the sum of the normalised support rows lo..hi, scaled by the integer L
RECURSIVE C4_RowSum(_, _, _, _)
C4_RowSum(x, lo, hi, L) ==
    IF lo > hi THEN <<0, 0>>
    ELSE LET r == C4_RowSum(x, lo + 1, hi, L)
             n == Norm(x[lo])
         IN  <<r[1] + (L \div n) * x[lo][1], r[2] + (L \div n) * x[lo][2]>>

\* u and v point the same way (or both vanish)
C4_SameDirection(u, v) ==
    /\ u[1] * v[2] = u[2] * v[1]
    /\ Dot(u, v) >= 0
    /\ (NormSq(u) = 0 <=> NormSq(v) = 0)

\* C4: fewshot_acc forms exactly 5 prototypes, the w-th from the w-th group of
\* num_shots consecutive support embeddings, predicts for every query the
\* index of the prototype with the largest dot product with it, and returns
\* 100 * (queries predicted as labelled) / (queries), a value in [0, 100].
C4_PrototypeAccuracy ==
    outcome = "acc" =>
        LET f == fs[1]
            n == Len(f.y_query)
        IN  /\ Len(f.prototypes) = 5
            /\ \A w \in 1..5 :
                  C4_SameDirection(
                      f.prototypes[w].vec,
                      C4_RowSum(f.x_support, (w - 1) * f.num_shots + 1,
                                w * f.num_shots, LCM(Norm(EmbA), Norm(EmbB))))
            /\ \A i \in 1..n :
                  /\ f.predicted[i] \in 0..4
                  /\ \A w \in 1..5 :
                        ~LogitLess(Logit(Normalize(f.x_query[i]),
                                         f.prototypes[f.predicted[i] + 1]),
                                   Logit(Normalize(f.x_query[i]), f.prototypes[w]))
            /\ ret[1][1] * n
                  = 100 * Cardinality({i \in 1..n : f.predicted[i] = f.y_query[i]})
                        * ret[1][2]
            /\ RLe(RInt(0), ret[1])
            /\ RLe(ret[1], RInt(100))

C4_Witness ==
    /\ outcome = "acc"
    /\ fs[1].num_shots = 2
    /\ Len(fs[1].y_query) = 2
    /\ fs[1].correct = 1
    /\ \E i \in 1..2 : fs[1].predicted[i] = 3
    /\ ret = Some(<<50, 1>>)

(***************************************************************************)
(* Claims about ft_fewshot_acc                                             *)
(***************************************************************************)
\* C5: ft_fewshot_acc leaves the model untouched: encoder, target encoder,
\* predictor and schedule position stay as the call found them; optimizer
\* steps change the per-task classifier only; the support and query features
\* are those computed from a copy of the target encoder before training, and
\* stay so through all 100 epochs.
C5_LinearProbeFrame ==
    ft # None =>
        /\ encoder = pre.encoder
        /\ predictor = pre.predictor
        /\ target_encoder = pre.target_encoder
        /\ sched_pos = pre.sched_pos
        /\ ft[1].mods # None =>
              /\ ft[1].mods.net = [params |-> pre.target_encoder, steps |-> 0]
              /\ ft[1].shots =
                     [net |-> [params |-> pre.target_encoder, steps |-> 0],
                      x |-> "x_support"]
              /\ ft[1].queries =
                     [net |-> [params |-> pre.target_encoder, steps |-> 0],
                      x |-> "x_query"]

C5_Witness ==
    /\ ft # None
    /\ pc = "train"
    /\ ft[1].epoch = 100
    /\ ft[1].mods.classifier.steps > 0
    /\ ft[1].batch_idx = 1

C9_Support == ft[1].args.train_num_ways * ft[1].args.num_shots

C9_Elems(b) == {b[k] : k \in 1..Len(b)}

\* C9: with N = train_num_ways * num_shots, each of the 100 epochs performs
\* floor(N/4) optimizer steps, each on a batch of 4 distinct indices of
\* 0..N-1, the batches of an epoch pairwise disjoint, so N mod 4 samples go
\* unused in that epoch; with N < 4 the classifier is never updated before
\* the queries are classified.
C9_EpochBatches ==
    (ft # None /\ ft[1].mods # None) =>
        LET N == C9_Support
            b == ft[1].batch_indices
        IN  /\ ft[1].epoch <= 100
            /\ ft[1].mods.classifier.steps = ft[1].epoch * (N \div 4)
            /\ ft[1].epoch >= 1 =>
                  /\ Len(b) = N \div 4
                  /\ \A i \in 1..Len(b) :
                        /\ Len(b[i]) = 4
                        /\ Cardinality(C9_Elems(b[i])) = 4
                        /\ C9_Elems(b[i]) \subseteq 0..(N - 1)
                  /\ \A i, j \in 1..Len(b) :
                        i # j => C9_Elems(b[i]) \cap C9_Elems(b[j]) = {}
                  /\ Cardinality((0..(N - 1)) \ UNION {C9_Elems(b[i]) : i \in 1..Len(b)})
                        = N % 4
            /\ (pc = "loader" \/ pc = "idle") => ft[1].epoch = 100
            /\ N < 4 => ft[1].mods.classifier.steps = 0

C9_Witness ==
    /\ ft # None
    /\ pc = "loader"
    /\ C9_Support = 8
    /\ Len(ft[1].batch_indices) = 2
    /\ ft[1].mods.classifier.steps = 200

\* C10: for a non-empty loader whose batches each yield at least one query,
\* ft_fewshot_acc returns the mean over the batches of the per-batch accuracy
\* 100*correct/total, correct and total starting from 0 in every batch and
\* 0 <= correct <= total throughout; the result is in [0, 100].
C10_MeanAccuracy ==
    ft # None =>
        /\ 0 <= ft[1].correct
        /\ ft[1].correct <= ft[1].total
        /\ pc = "train" => (ft[1].correct = 0 /\ ft[1].total = 0)
        /\ ft[1].acc # None =>
              /\ RLe(RInt(0), ft[1].acc[1])
              /\ RLe(ft[1].acc[1], RInt(100))
        /\ outcome = "accuracy" =>
              /\ ret # None
              /\ ret[1][1] * ft[1].expected_sum[2] * ft[1].len_loader
                    = ft[1].expected_sum[1] * ret[1][2]
              /\ RLe(RInt(0), ret[1])
              /\ RLe(ret[1], RInt(100))

C10_Witness ==
    /\ outcome = "accuracy"
    /\ ft[1].len_loader = 2
    /\ ret = Some(<<50, 1>>)

====
